---- MODULE Spec2Model ----
(***************************************************************************)
(* A model of the Entity-Component-System runtime of engine/ecs:           *)
(*   entity.py  EntityManager  (entities, components, component_index)     *)
(*   system.py  SystemManager  (systems, systems_by_type)                  *)
(* Every operation is a pure operator on a record of the manager's fields, *)
(* written statement by statement after the Python method, and an action   *)
(* that applies it to the variables.  Hook calls (Component.destroy,       *)
(* System.start/stop/update) and index insertions are appended, in the     *)
(* order the code performs them, to the trace of the operation, which is   *)
(* part of its outcome.  A property of an operation is stated of its       *)
(* outcome on every reachable state and every argument.                    *)
(***************************************************************************)
EXTENDS Integers, Sequences, FiniteSets, TLC

\* ------------------------------------------------------------------ bounds
MaxEntities == 2
MaxSystems == 5
\* World.update: the largest delta, in time units, and the number of ticks
MaxDt == 2
MaxTicks == 2
\* HealthComponent: the instances constructed, their max_health, the largest amount
MaxHealthComps == 2
MaxHealth == 2
MaxAmount == 2
\* TimerComponent: the longest duration, in time units, and the number of
\* update calls a timer receives between two resets
MaxDuration == 2
MaxUpdates == 3

\* The component instances the callers construct, each named by its class
\* (components.py): instances 1 and 3 are two TransformComponents
CompTypeNames == <<"TransformComponent", "VelocityComponent", "TransformComponent">>
Types == {CompTypeNames[i] : i \in 1..Len(CompTypeNames)}

\* entity ids in use, component instances and system instances
EntityIds == 1..MaxEntities
CompIds == 1..Len(CompTypeNames)
SysIds == 1..MaxSystems

\* The HealthComponent instances, numbered after the others
HealthIds == (Len(CompTypeNames) + 1)..(Len(CompTypeNames) + MaxHealthComps)

\* The TimerComponent instance, numbered after those
TimerIds == {Len(CompTypeNames) + MaxHealthComps + 1}

\* The SpriteComponent instances, one for each entity id, numbered after it
SpriteIds ==
    (Len(CompTypeNames) + MaxHealthComps + 2)..(Len(CompTypeNames) + MaxHealthComps + 1 + MaxEntities)

\* type(component)
TypeOf(c) ==
    IF c \in CompIds THEN CompTypeNames[c]
    ELSE IF c \in HealthIds THEN "HealthComponent"
    ELSE IF c \in TimerIds THEN "TimerComponent"
    ELSE "SpriteComponent"

\* ------------------------------------------------------------------ state
VARIABLES
    entities,          \* EntityManager.entities: the ids that are keys of the dict
    components,        \* EntityManager.components: id -> (type -> component)
    component_index,   \* EntityManager.component_index: type -> set of ids
    owner,             \* Component.entity of each instance: {} (None) or {id}
    systems,           \* SystemManager.systems: the ordered list
    systems_by_type,   \* SystemManager.systems_by_type: type -> system
    is_active,         \* System.is_active of each instance
    running,           \* instances whose start() fired and whose stop() has not since
    hook_error,        \* start() fired on a running instance, or stop() on one not running
    log,               \* the systems whose update ran in the latest tick, in order
    delta_time,        \* World.delta_time, in time units
    total_time,        \* World.total_time, in time units
    dts,               \* the deltas World.update was called with, in order
    health,            \* max_health, current_health, is_dead of each HealthComponent
    position,          \* TransformComponent.position of each instance: [x, y]
    velocity,          \* VelocityComponent.velocity of each instance: [x, y]
    timer,             \* the fields of each TimerComponent, the calls of its callback
                       \* (fired) and the deltas it was updated with since its reset
    sprite,            \* shape and visible of each SpriteComponent
    z_order,           \* the z_order attribute of the Entity of each id (0 when unset)
    drawn              \* the calls the renderer received in the latest RenderSystem update

storeVars == <<entities, components, component_index, owner>>
schedVars == <<systems, systems_by_type, is_active, running, hook_error, log>>
worldVars == <<delta_time, total_time, dts>>
fieldVars == <<health, position, velocity, timer>>
renderVars == <<sprite, z_order, drawn>>
vars == <<entities, components, component_index, owner,
          systems, systems_by_type, is_active, running, hook_error, log,
          delta_time, total_time, dts, health, position, velocity, timer,
          sprite, z_order, drawn>>

\* ---------------------------------------------------------- dict helpers
EmptyDict == [k \in {} |-> 0]
DictDel(d, k) == [x \in (DOMAIN d) \ {k} |-> d[x]]
DictSet(d, k, v) == [x \in (DOMAIN d) \cup {k} |-> IF x = k THEN v ELSE d[x]]
\* dict.get(k, set())
IndexGet(st, T) == IF T \in DOMAIN st.component_index THEN st.component_index[T] ELSE {}

\* One entry of the trace: a hook call on obj (a component or a system), or the
\* insertion of entity ent into the index of type typ
Event(ev, e, T, x) == [ev |-> ev, ent |-> e, typ |-> T, obj |-> x]
Log(st, ev) == [st EXCEPT !.trace = Append(@, ev)]

\* The EntityManager (with the back-references of the component instances)
\* as one record; an operation maps it to [st |-> the manager afterwards,
\* ret |-> the value returned, or the exception raised].
Store == [entities |-> entities, components |-> components,
          component_index |-> component_index, owner |-> owner, trace |-> <<>>]

Outcome(st, ret) == [st |-> st, ret |-> ret]

\* ------------------------------------------------------ EntityManager
\* create_entity: Entity(entity_id); entities[id] = entity; components[id] = {}
create_entity(st, id) ==
    LET s1 == [st EXCEPT !.entities = @ \cup {id}]
        s2 == [s1 EXCEPT !.components = DictSet(@, id, EmptyDict)]
    IN Outcome(s2, "Entity")

\* Component.destroy exists on every Component (hasattr(component, 'destroy'))
HasDestroyHook(c) == TRUE
\* Component.__init__ sets self.entity (hasattr(component, 'entity'))
HasEntityAttr(c) == TRUE

\* IndexDiscard with the index update forgotten
IndexDiscard_Forgotten(st, e, T) == st

\* component_index[T].discard(id); drop the set when it becomes empty
IndexDiscard(st, e, T) ==
    IF T \in DOMAIN st.component_index
    THEN LET ids == st.component_index[T] \ {e}
         IN IF ids = {}
            THEN [st EXCEPT !.component_index = DictDel(@, T)]
            ELSE [st EXCEPT !.component_index = DictSet(@, T, ids)]
    ELSE st

\* remove_component that drops the component without calling its destroy hook
remove_component_NoHook(st, e, T) ==
    IF e \notin DOMAIN st.components THEN Outcome(st, "KeyError")
    ELSE IF T \in DOMAIN st.components[e]
    THEN LET s2 == [st EXCEPT !.components = DictSet(@, e, DictDel(st.components[e], T))]
             s3 == IndexDiscard(s2, e, T)
         IN Outcome(s3, "True")
    ELSE Outcome(st, "False")

remove_component(st, e, T) ==
    IF e \notin DOMAIN st.components THEN Outcome(st, "KeyError")
    ELSE IF T \in DOMAIN st.components[e]
    THEN LET c  == st.components[e][T]
             s1 == IF HasDestroyHook(c) THEN Log(st, Event("destroy", e, T, c)) ELSE st
             s2 == [s1 EXCEPT !.components = DictSet(@, e, DictDel(s1.components[e], T))]
             s3 == IndexDiscard(s2, e, T)
         IN Outcome(s3, "True")
    ELSE Outcome(st, "False")

\* for component_type in list(self.components[entity.id].keys()): remove_component.
\* keys is that list: a dict lists its keys in insertion order, which the model
\* does not record, so the caller supplies an order.
RECURSIVE RemoveAll(_, _, _)
RemoveAll(st, e, keys) ==
    IF keys = <<>> THEN st
    ELSE RemoveAll(remove_component(st, e, Head(keys)).st, e, Tail(keys))

\* destroy_entity without its membership test: del raises on a missing id
destroy_entity_Unguarded(st, e, keys) ==
    IF e \in st.entities
    THEN LET s1 == RemoveAll(st, e, keys)
             s2 == [s1 EXCEPT !.entities = @ \ {e}]
             s3 == [s2 EXCEPT !.components = DictDel(@, e)]
         IN Outcome(s3, "None")
    ELSE Outcome(st, "KeyError")

destroy_entity(st, e, keys) ==
    IF e \in st.entities
    THEN LET s1 == RemoveAll(st, e, keys)
             s2 == [s1 EXCEPT !.entities = @ \ {e}]
             s3 == [s2 EXCEPT !.components = DictDel(@, e)]
         IN Outcome(s3, "None")
    ELSE Outcome(st, "None")

\* component_index.setdefault-style insertion followed by .add(id)
IndexAdd(st, e, T) ==
    LET ids == IF T \in DOMAIN st.component_index THEN st.component_index[T] ELSE {}
    IN [st EXCEPT !.component_index = DictSet(@, T, ids \cup {e})]

\* add_component that sets the back-reference before it looks the entity up
add_component_OwnerFirst(st, e, c) ==
    LET T  == TypeOf(c)
        s0 == [st EXCEPT !.owner = DictSet(@, c, {e})]
    IN
    IF e \notin DOMAIN st.components THEN Outcome(s0, "KeyError")
    ELSE LET s1 == IF T \in DOMAIN s0.components[e]
                   THEN remove_component(s0, e, T).st ELSE s0
             s2 == [s1 EXCEPT !.components = DictSet(@, e, DictSet(s1.components[e], T, c))]
             s3 == Log(IndexAdd(s2, e, T), Event("index", e, T, c))
         IN Outcome(s3, "Component")

\* add_component that overwrites an existing component without removing it
add_component_NoReplace(st, e, c) ==
    LET T == TypeOf(c) IN
    IF e \notin DOMAIN st.components THEN Outcome(st, "KeyError")
    ELSE LET s2 == [st EXCEPT !.components = DictSet(@, e, DictSet(st.components[e], T, c))]
             s3 == Log(IndexAdd(s2, e, T), Event("index", e, T, c))
             s4 == IF HasEntityAttr(c) THEN [s3 EXCEPT !.owner = DictSet(@, c, {e})] ELSE s3
         IN Outcome(s4, "Component")

add_component(st, e, c) ==
    LET T == TypeOf(c) IN
    IF e \notin DOMAIN st.components THEN Outcome(st, "KeyError")
    ELSE LET s1 == IF T \in DOMAIN st.components[e]
                   THEN remove_component(st, e, T).st ELSE st
             s2 == [s1 EXCEPT !.components = DictSet(@, e, DictSet(s1.components[e], T, c))]
             s3 == Log(IndexAdd(s2, e, T), Event("index", e, T, c))
             s4 == IF HasEntityAttr(c) THEN [s3 EXCEPT !.owner = DictSet(@, c, {e})] ELSE s3
         IN Outcome(s4, "Component")

\* dict.get(component_type): the component, or None
get_component(st, e, T) ==
    IF e \notin DOMAIN st.components THEN [ret |-> "KeyError", obj |-> 0]
    ELSE IF T \in DOMAIN st.components[e]
    THEN [ret |-> "Component", obj |-> st.components[e][T]]
    ELSE [ret |-> "None", obj |-> 0]

has_component(st, e, T) ==
    IF e \notin DOMAIN st.components THEN "KeyError"
    ELSE IF T \in DOMAIN st.components[e] THEN "True" ELSE "False"

\* [self.entities[id] for id in ids if id in self.entities], as a set
Existing(st, ids) == {id \in ids : id \in st.entities}

get_entities_with_component(st, T) == Existing(st, IndexGet(st, T))

RECURSIVE Intersect(_, _, _)
Intersect(st, ids, types) ==
    IF types = <<>> THEN ids
    ELSE Intersect(st, ids \cap IndexGet(st, Head(types)), Tail(types))

get_entities_with_components(st, types) ==
    IF types = <<>> THEN st.entities
    ELSE Existing(st, Intersect(st, IndexGet(st, types[1]), Tail(types)))

\* ------------------------------------------- Transform and Velocity
\* The TransformComponent and the VelocityComponent instances
TransformIds == {c \in CompIds : TypeOf(c) = "TransformComponent"}
VelocityIds == {c \in CompIds : TypeOf(c) = "VelocityComponent"}

\* Vector2(x, y), __mul__ by a scalar and __add__; coordinates are whole numbers
Vector2(x, y) == [x |-> x, y |-> y]
Vector2_mul(v, scalar) == Vector2(v.x * scalar, v.y * scalar)
Vector2_add(v, other) == Vector2(v.x + other.x, v.y + other.y)

\* TransformComponent.translate(delta): self.position += delta
translate(w, t, delta) == [w EXCEPT !.position[t] = Vector2_add(@, delta)]

\* ---------------------------------------------------- TimerComponent
\* TimerComponent(duration, callback, repeat).  Beside the fields, a timer
\* records the deltas update was called with (given) and the calls of its
\* callback (fired) since the construction or the last reset.
TimerComponent(duration, repeat) ==
    [duration |-> duration, current_time |-> 0, repeat |-> repeat, is_finished |-> FALSE,
     fired |-> 0, given |-> <<>>]

\* self.callback is set (if self.callback:)
HasCallback(t) == TRUE

\* TimerComponent.update that fires as long as the time is up, finished or not
TimerComponent_update_NeverFreezes(t, dt) ==
    LET t0 == [t EXCEPT !.given = Append(@, dt)]
        t1 == [t0 EXCEPT !.current_time = @ + dt]
    IN IF t1.current_time >= t1.duration
       THEN LET t2 == IF HasCallback(t1) THEN [t1 EXCEPT !.fired = @ + 1] ELSE t1
            IN IF t2.repeat THEN [t2 EXCEPT !.current_time = 0]
               ELSE [t2 EXCEPT !.is_finished = TRUE]
       ELSE t1

\* TimerComponent.update that keeps the time over the duration when it repeats
TimerComponent_update_KeepsOvershoot(t, dt) ==
    LET t0 == [t EXCEPT !.given = Append(@, dt)]
    IN IF ~t0.is_finished
       THEN LET t1 == [t0 EXCEPT !.current_time = @ + dt]
            IN IF t1.current_time >= t1.duration
               THEN LET t2 == IF HasCallback(t1) THEN [t1 EXCEPT !.fired = @ + 1] ELSE t1
                    IN IF t2.repeat THEN [t2 EXCEPT !.current_time = @ - t2.duration]
                       ELSE [t2 EXCEPT !.is_finished = TRUE]
               ELSE t1
       ELSE t0

\* TimerComponent.update(delta_time)
TimerComponent_update(t, dt) ==
    LET t0 == [t EXCEPT !.given = Append(@, dt)]
    IN IF ~t0.is_finished
       THEN LET t1 == [t0 EXCEPT !.current_time = @ + dt]
            IN IF t1.current_time >= t1.duration
               THEN LET t2 == IF HasCallback(t1) THEN [t1 EXCEPT !.fired = @ + 1] ELSE t1
                    IN IF t2.repeat THEN [t2 EXCEPT !.current_time = 0]
                       ELSE [t2 EXCEPT !.is_finished = TRUE]
               ELSE t1
       ELSE t0

\* TimerComponent.reset()
TimerComponent_reset(t) ==
    [t EXCEPT !.current_time = 0, !.is_finished = FALSE, !.given = <<>>, !.fired = 0]

\* --------------------------------------------------- HealthComponent
\* HealthComponent(max_health): current_health = max_health, is_dead = False
HealthComponent(max_health) ==
    [max_health |-> max_health, current_health |-> max_health, is_dead |-> FALSE]

\* HealthComponent(max_health, current_health)
HealthComponentAt(max_health, current_health) ==
    [max_health |-> max_health, current_health |-> current_health, is_dead |-> FALSE]

Max(a, b) == IF a >= b THEN a ELSE b
Min(a, b) == IF a <= b THEN a ELSE b

\* take_damage that subtracts without the clamp at 0
take_damage_Unclamped(h, damage) ==
    LET h1 == [h EXCEPT !.current_health = @ - damage]
    IN IF h1.current_health <= 0 THEN [h1 EXCEPT !.is_dead = TRUE] ELSE h1

\* HealthComponent.take_damage(damage)
take_damage(h, damage) ==
    LET h1 == [h EXCEPT !.current_health = Max(0, @ - damage)]
    IN IF h1.current_health <= 0 THEN [h1 EXCEPT !.is_dead = TRUE] ELSE h1

\* HealthComponent.heal(amount)
heal(h, amount) ==
    LET h1 == [h EXCEPT !.current_health = Min(h.max_health, @ + amount)]
    IN [h1 EXCEPT !.is_dead = FALSE]

\* ------------------------------------------------------ SystemManager
\* The system classes and the priorities the instances are constructed with:
\* instance s is a SysTypeOf(s) with priority PriorityOf(s).  Instances 1 and 5
\* are two systems of one class; instances 2 and 5 have one priority.
SysTypeNames == <<"TimerSystem", "HealthSystem", "MovementSystem", "BoundarySystem">>
Priorities == <<50, 200, 100, 75, 200>>
SysTypes == {SysTypeNames[i] : i \in 1..Len(SysTypeNames)}
SysTypeOf(s) == SysTypeNames[((s - 1) % Len(SysTypeNames)) + 1]
PriorityOf(s) == Priorities[((s - 1) % Len(Priorities)) + 1]

Sched == [systems |-> systems, systems_by_type |-> systems_by_type,
          is_active |-> is_active, running |-> running,
          hook_error |-> hook_error, trace |-> <<>>]

\* System.start / System.stop / System.update: hooks, recorded as called
start(sm, s) ==
    Log([sm EXCEPT !.hook_error = @ \/ (s \in sm.running), !.running = @ \cup {s}],
        Event("start", 0, "", s))
stop(sm, s) ==
    Log([sm EXCEPT !.hook_error = @ \/ (s \notin sm.running), !.running = @ \ {s}],
        Event("stop", 0, "", s))
\* A system reads the clock of its world (self.world) while it is updated: a
\* world keeps, in seen, the times each update call could read
system_update(sm, s) ==
    LET s1 == Log(sm, Event("update", 0, "", s))
    IN IF "seen" \in DOMAIN sm
       THEN [s1 EXCEPT !.seen = Append(@, [system |-> s, total_time |-> sm.total_time,
                                              delta_time |-> sm.delta_time])]
       ELSE s1

\* An insertion that puts x before the systems of its priority: an unstable sort
InsertByPriority_BeforeTies(sorted, x) ==
    LET k == Cardinality({i \in 1..Len(sorted) : PriorityOf(sorted[i]) < PriorityOf(x)})
    IN SubSeq(sorted, 1, k) \o <<x>> \o SubSeq(sorted, k + 1, Len(sorted))

\* list.sort(key=lambda s: s.priority): a stable sort
InsertByPriority(sorted, x) ==
    LET k == Cardinality({i \in 1..Len(sorted) : PriorityOf(sorted[i]) <= PriorityOf(x)})
    IN SubSeq(sorted, 1, k) \o <<x>> \o SubSeq(sorted, k + 1, Len(sorted))
RECURSIVE SortByPriority(_)
SortByPriority(seq) ==
    IF seq = <<>> THEN <<>>
    ELSE InsertByPriority(SortByPriority(SubSeq(seq, 1, Len(seq) - 1)), seq[Len(seq)])

\* list.remove(x): drops the first occurrence
ListRemove(seq, x) ==
    LET hits == {i \in 1..Len(seq) : seq[i] = x}
    IN IF hits = {} THEN seq
       ELSE LET k == CHOOSE i \in hits : \A j \in hits : i <= j
            IN SubSeq(seq, 1, k - 1) \o SubSeq(seq, k + 1, Len(seq))

\* remove_system that drops the system without calling its stop hook
remove_system_NoStop(sm, T) ==
    IF T \in DOMAIN sm.systems_by_type
    THEN LET system == sm.systems_by_type[T]
             s2 == [sm EXCEPT !.systems = ListRemove(@, system)]
             s3 == [s2 EXCEPT !.systems_by_type = DictDel(@, T)]
         IN Outcome(s3, "True")
    ELSE Outcome(sm, "False")

\* remove_system without its membership test: the lookup raises on a missing type
remove_system_Unguarded(sm, T) ==
    IF T \in DOMAIN sm.systems_by_type
    THEN LET system == sm.systems_by_type[T]
             s1 == stop(sm, system)
             s2 == [s1 EXCEPT !.systems = ListRemove(@, system)]
             s3 == [s2 EXCEPT !.systems_by_type = DictDel(@, T)]
         IN Outcome(s3, "True")
    ELSE Outcome(sm, "KeyError")

remove_system(sm, T) ==
    IF T \in DOMAIN sm.systems_by_type
    THEN LET system == sm.systems_by_type[T]
             s1 == stop(sm, system)
             s2 == [s1 EXCEPT !.systems = ListRemove(@, system)]
             s3 == [s2 EXCEPT !.systems_by_type = DictDel(@, T)]
         IN Outcome(s3, "True")
    ELSE Outcome(sm, "False")

\* add_system that appends without sorting
add_system_Unsorted(sm, s) ==
    LET T  == SysTypeOf(s)
        s1 == IF T \in DOMAIN sm.systems_by_type THEN remove_system(sm, T).st ELSE sm
        s2 == [s1 EXCEPT !.systems = Append(@, s)]
        s3 == [s2 EXCEPT !.systems_by_type = DictSet(@, T, s)]
        s5 == start(s3, s)
    IN Outcome(s5, "None")

\* add_system that registers beside an instance of the same type
add_system_KeepOld(sm, s) ==
    LET T  == SysTypeOf(s)
        s2 == [sm EXCEPT !.systems = Append(@, s)]
        s3 == [s2 EXCEPT !.systems_by_type = DictSet(@, T, s)]
        s4 == [s3 EXCEPT !.systems = SortByPriority(@)]
        s5 == start(s4, s)
    IN Outcome(s5, "None")

add_system(sm, s) ==
    LET T  == SysTypeOf(s)
        s1 == IF T \in DOMAIN sm.systems_by_type THEN remove_system(sm, T).st ELSE sm
        s2 == [s1 EXCEPT !.systems = Append(@, s)]
        s3 == [s2 EXCEPT !.systems_by_type = DictSet(@, T, s)]
        s4 == [s3 EXCEPT !.systems = SortByPriority(@)]
        s5 == start(s4, s)
    IN Outcome(s5, "None")

get_system(sm, T) ==
    IF T \in DOMAIN sm.systems_by_type THEN {sm.systems_by_type[T]} ELSE {}

\* for system in self.systems: if system.is_active: system.update(delta_time)
RECURSIVE UpdateFrom(_, _)
UpdateFrom(sm, i) ==
    IF i > Len(sm.systems) THEN sm
    ELSE LET s == sm.systems[i]
         IN UpdateFrom(IF sm.is_active[s] THEN system_update(sm, s) ELSE sm, i + 1)

update(sm) == Outcome(UpdateFrom(sm, 1), "None")

\* for system in self.systems.copy(): system.stop()
RECURSIVE StopEach(_, _)
StopEach(sm, list) ==
    IF list = <<>> THEN sm
    ELSE StopEach(stop(sm, Head(list)), Tail(list))

\* clear that empties the list and leaves the by-type map
clear_KeepsMap(sm) ==
    LET s1 == StopEach(sm, sm.systems)
        s2 == [s1 EXCEPT !.systems = <<>>]
    IN Outcome(s2, "None")

\* SystemManager.clear
clear(sm) ==
    LET s1 == StopEach(sm, sm.systems)
        s2 == [s1 EXCEPT !.systems = <<>>]
        s3 == [s2 EXCEPT !.systems_by_type = EmptyDict]
    IN Outcome(s3, "None")

\* -------------------------------------------------------------- World
\* The World with its EntityManager and its SystemManager as one record: the
\* operations of the managers apply to it and share its trace.
World == [entities |-> entities, components |-> components,
          component_index |-> component_index, owner |-> owner,
          systems |-> systems, systems_by_type |-> systems_by_type,
          is_active |-> is_active, running |-> running, hook_error |-> hook_error,
          delta_time |-> delta_time, total_time |-> total_time,
          health |-> health, position |-> position, velocity |-> velocity,
          timer |-> timer, sprite |-> sprite, z_order |-> z_order,
          seen |-> <<>>, visits |-> <<>>, drawn |-> <<>>, trace |-> <<>>]

\* World.update that runs the scheduler before it advances the clock
world_update_SchedulerFirst(w, dt) ==
    LET w1 == update(w).st
        w2 == [w1 EXCEPT !.delta_time = dt]
        w3 == [w2 EXCEPT !.total_time = @ + dt]
    IN Outcome(w3, "None")

\* World.update(delta_time)
world_update(w, dt) ==
    LET w1 == [w EXCEPT !.delta_time = dt]
        w2 == [w1 EXCEPT !.total_time = @ + dt]
        w3 == update(w2).st
    IN Outcome(w3, "None")

\* for entity in self.get_all_entities(): self.destroy_entity(entity).
\* ids is list(self.entities.values()) and keys[e] is the key list that
\* destroy_entity walks for e; both orders are those of the dicts.
RECURSIVE DestroyEach(_, _, _)
DestroyEach(w, ids, keys) ==
    IF ids = <<>> THEN w
    ELSE DestroyEach(destroy_entity(w, Head(ids), keys[Head(ids)]).st, Tail(ids), keys)

\* World.clear
world_clear(w, ids, keys) ==
    LET w1 == clear(w).st
        w2 == DestroyEach(w1, ids, keys)
    IN Outcome(w2, "None")

\* -------------------------------------------------------- HealthSystem
\* health = get_component(entity, HealthComponent); health and health.is_dead
IsDeadIn(w, e) ==
    /\ get_component(w, e, "HealthComponent").ret = "Component"
    /\ w.health[get_component(w, e, "HealthComponent").obj].is_dead

\* HealthSystem.update.  listed is get_entities_with_component(HealthComponent),
\* a list in the order of the index set.
HealthSystem_update(w, listed, keys) ==
    LET entities_to_destroy == SelectSeq(listed, LAMBDA e : IsDeadIn(w, e))
    IN Outcome(DestroyEach(w, entities_to_destroy, keys), "None")

\* ------------------------------------------ MovementSystem, BoundarySystem
\* BoundarySystem(screen_width, screen_height, wrap_around), the defaults
screen_width == 800
screen_height == 600
wrap_around == TRUE

\* MovementSystem.update(delta_time) over the listed entities: each one that has
\* a transform and a velocity is translated by velocity * delta_time
\* (max_speed is None: limit_speed changes nothing)
RECURSIVE MoveEach(_, _, _)
MoveEach(w, listed, dt) ==
    IF listed = <<>> THEN w
    ELSE LET e == Head(listed)
             transform == get_component(w, e, "TransformComponent")
             vel == get_component(w, e, "VelocityComponent")
             w1 == IF transform.ret = "Component" /\ vel.ret = "Component"
                   THEN translate(w, transform.obj, Vector2_mul(w.velocity[vel.obj], dt))
                   ELSE w
         IN MoveEach(w1, Tail(listed), dt)

MovementSystem_update(w, listed, dt) == Outcome(MoveEach(w, listed, dt), "None")

\* The wrap of one coordinate, and the clamp
WrapCoordinate(v, size) == IF v < 0 THEN size ELSE IF v > size THEN 0 ELSE v
ClampCoordinate(v, size) == Max(0, Min(size, v))

\* BoundarySystem.update over the listed entities
RECURSIVE BoundEach(_, _)
BoundEach(w, listed) ==
    IF listed = <<>> THEN w
    ELSE LET e == Head(listed)
             transform == get_component(w, e, "TransformComponent")
             pos == w.position[transform.obj]
             w1 == IF transform.ret # "Component" THEN w
                   ELSE IF wrap_around
                   THEN [w EXCEPT !.position[transform.obj] =
                            Vector2(WrapCoordinate(pos.x, screen_width),
                                    WrapCoordinate(pos.y, screen_height))]
                   ELSE [w EXCEPT !.position[transform.obj] =
                            Vector2(ClampCoordinate(pos.x, screen_width),
                                    ClampCoordinate(pos.y, screen_height))]
         IN BoundEach(w1, Tail(listed))

BoundarySystem_update(w, listed) == Outcome(BoundEach(w, listed), "None")

\* One tick of a world whose systems are a MovementSystem (priority 100) and a
\* BoundarySystem (priority 150): the movement runs first, and the boundary
\* queries the store after it
MoveThenBound(w, movers, bounded, dt) ==
    BoundarySystem_update(MovementSystem_update(w, movers, dt).st, bounded)

\* --------------------------------------------------------- TimerSystem
\* TimerSystem.update(delta_time) over the listed entities
RECURSIVE TimeEach(_, _, _)
TimeEach(w, listed, dt) ==
    IF listed = <<>> THEN w
    ELSE LET got == get_component(w, Head(listed), "TimerComponent")
             w1 == IF got.ret = "Component"
                   THEN [w EXCEPT !.timer[got.obj] = TimerComponent_update(@, dt)]
                   ELSE w
         IN TimeEach(w1, Tail(listed), dt)

TimerSystem_update(w, listed, dt) == Outcome(TimeEach(w, listed, dt), "None")

\* ------------------------------------------------------ a frame in full
\* World.update with the update methods of the registered systems: each
\* system queries the store when its update starts and walks the result.

\* A set of ids as the list a query returns: the ids in the order ord
Listed(ids, ord) == SelectSeq(ord, LAMBDA e : e \in ids)

\* list(self.components[e].keys()) for every entity: the held types in the
\* order tord, the order in which the components were added
KeysIn(w, tord) ==
    [e \in DOMAIN w.components |->
        SelectSeq(tord, LAMBDA T : T \in DOMAIN w.components[e])]

\* The component types a system asks the store for, by its class
QueryTypes(s) ==
    IF SysTypeOf(s) = "TimerSystem" THEN <<"TimerComponent">>
    ELSE IF SysTypeOf(s) = "HealthSystem" THEN <<"HealthComponent">>
    ELSE IF SysTypeOf(s) = "MovementSystem" THEN <<"TransformComponent", "VelocityComponent">>
    ELSE <<"TransformComponent">>

\* The entities the query of a system returns: get_entities_with_component
\* for the systems with one type, get_entities_with_components for Movement
Query(w, s) ==
    IF SysTypeOf(s) = "MovementSystem"
    THEN get_entities_with_components(w, QueryTypes(s))
    ELSE get_entities_with_component(w, QueryTypes(s)[1])

\* system.update(delta_time), by the class of the system
SystemBody(w, s, dt, ord, tord) ==
    IF SysTypeOf(s) = "TimerSystem"
    THEN TimerSystem_update(w, Listed(Query(w, s), ord), dt).st
    ELSE IF SysTypeOf(s) = "HealthSystem"
    THEN HealthSystem_update(w, Listed(Query(w, s), ord), KeysIn(w, tord)).st
    ELSE IF SysTypeOf(s) = "MovementSystem"
    THEN MovementSystem_update(w, Listed(Query(w, s), ord), dt).st
    ELSE BoundarySystem_update(w, Listed(Query(w, s), ord)).st

\* One update call: the call is recorded, with the entities the query returns
\* and the store as it is when the update starts (visits), then the update runs
RunSystem(w, s, dt, ord, tord) ==
    LET w1 == system_update(w, s)
        w2 == [w1 EXCEPT !.visits = Append(@, [system |-> s, listed |-> Query(w, s),
                                                entities |-> w.entities,
                                                components |-> w.components])]
    IN SystemBody(w2, s, dt, ord, tord)

\* What the caller's code does in a frame beside the updates above, env:
\*   ord, tord   the orders in which sets of ids and dicts of types are listed
\*   raising     the system whose update raises (a subclass of the caller, or a
\*               callback that raises), 0 for none
\*   who, what   the system whose update ends with a call of remove_system
\*               (what.op = "remove", what.type) or of add_system (what.op =
\*               "add", what.sys) on its world, who = 0 for none
NoChange == [op |-> "none", type |-> "", sys |-> 0]
ApplyChange(w, what) ==
    IF what.op = "remove" THEN remove_system(w, what.type).st
    ELSE IF what.op = "add" THEN add_system(w, what.sys).st
    ELSE w

\* The loop of SystemManager.update with a handler around each update call:
\* the exception is swallowed and the loop goes on
RECURSIVE RunFrom_Swallow(_, _, _, _)
RunFrom_Swallow(w, i, dt, env) ==
    IF i > Len(w.systems) THEN Outcome(w, "None")
    ELSE LET s == w.systems[i]
         IN IF ~w.is_active[s] THEN RunFrom_Swallow(w, i + 1, dt, env)
            ELSE IF s = env.raising
            THEN RunFrom_Swallow(system_update(w, s), i + 1, dt, env)
            ELSE LET w1 == RunSystem(w, s, dt, env.ord, env.tord)
                     w2 == IF s = env.who THEN ApplyChange(w1, env.what) ELSE w1
                 IN RunFrom_Swallow(w2, i + 1, dt, env)

\* for system in self.systems: if system.is_active: system.update(delta_time).
\* The for statement walks the list itself by position, whatever the updates
\* do to it; an exception raised by an update ends the loop and the call.
RECURSIVE RunFrom(_, _, _, _)
RunFrom(w, i, dt, env) ==
    IF i > Len(w.systems) THEN Outcome(w, "None")
    ELSE LET s == w.systems[i]
         IN IF ~w.is_active[s] THEN RunFrom(w, i + 1, dt, env)
            ELSE IF s = env.raising
            THEN Outcome(system_update(w, s), "Exception")
            ELSE LET w1 == RunSystem(w, s, dt, env.ord, env.tord)
                     w2 == IF s = env.who THEN ApplyChange(w1, env.what) ELSE w1
                 IN RunFrom(w2, i + 1, dt, env)

\* World.update(delta_time), in full
world_frame(w, dt, env) ==
    LET w1 == [w EXCEPT !.delta_time = dt]
        w2 == [w1 EXCEPT !.total_time = @ + dt]
    IN RunFrom(w2, 1, dt, env)

\* ------------------------------------------- SpriteComponent, RenderSystem
\* SpriteComponent(color, size, shape): visible = True
SpriteComponent(shape) == [shape |-> shape, visible |-> TRUE]
Shapes == {"rectangle", "circle", "triangle"}

\* The methods of the Renderer (graphics/renderer.py) that draw
RendererMethods ==
    {"draw_rectangle", "draw_circle", "draw_line", "draw_text", "draw_polygon",
     "draw_sprite_from_atlas"}

\* sorted(entities, key=lambda e: getattr(e, 'z_order', 0)): a stable sort
InsertByZ(w, sorted, e) ==
    LET k == Cardinality({i \in 1..Len(sorted) : w.z_order[sorted[i]] <= w.z_order[e]})
    IN SubSeq(sorted, 1, k) \o <<e>> \o SubSeq(sorted, k + 1, Len(sorted))
RECURSIVE SortByZ(_, _)
SortByZ(w, seq) ==
    IF seq = <<>> THEN <<>>
    ELSE InsertByZ(w, SortByZ(w, SubSeq(seq, 1, Len(seq) - 1)), seq[Len(seq)])

\* The renderer method RenderSystem.update calls for a shape
MethodFor(shape) ==
    IF shape = "circle" THEN "draw_circle"
    ELSE IF shape = "triangle" THEN "draw_triangle"
    ELSE "draw_rectangle"

\* The loop of RenderSystem.update over the sorted entities: a call of a method
\* the renderer does not have raises AttributeError and ends the update
RECURSIVE DrawEach(_, _)
DrawEach(w, list) ==
    IF list = <<>> THEN Outcome(w, "None")
    ELSE LET e == Head(list)
             transform == get_component(w, e, "TransformComponent")
             spr == get_component(w, e, "SpriteComponent")
         IN IF transform.ret = "Component" /\ spr.ret = "Component" /\ w.sprite[spr.obj].visible
            THEN LET method == MethodFor(w.sprite[spr.obj].shape)
                 IN IF method \in RendererMethods
                    THEN DrawEach([w EXCEPT !.drawn = Append(@, [call |-> method, ent |-> e])],
                                  Tail(list))
                    ELSE Outcome(w, "AttributeError")
            ELSE DrawEach(w, Tail(list))

\* RenderSystem.update.  listed is the list that
\* get_entities_with_components(TransformComponent, SpriteComponent) returns.
RenderSystem_update(w, listed) == DrawEach(w, SortByZ(w, listed))

\* ------------------------------------------------------------- actions
\* No sprite is constructed, no z_order is set and nothing was drawn
RenderDefaults ==
    /\ sprite = [c \in SpriteIds |-> SpriteComponent("rectangle")]
    /\ z_order = [e \in EntityIds |-> 0]
    /\ drawn = <<>>

Commit(r) ==
    /\ entities' = r.st.entities
    /\ components' = r.st.components
    /\ component_index' = r.st.component_index
    /\ owner' = r.st.owner
    /\ UNCHANGED schedVars
    /\ UNCHANGED worldVars
    /\ UNCHANGED fieldVars
    /\ UNCHANGED renderVars

CommitSched(r) ==
    /\ systems' = r.st.systems
    /\ systems_by_type' = r.st.systems_by_type
    /\ is_active' = r.st.is_active
    /\ running' = r.st.running
    /\ hook_error' = r.st.hook_error
    /\ UNCHANGED storeVars
    /\ UNCHANGED worldVars
    /\ UNCHANGED fieldVars
    /\ UNCHANGED renderVars

Init ==
    /\ entities = {}
    /\ components = EmptyDict
    /\ component_index = EmptyDict
    /\ owner = [c \in CompIds |-> {}]
    /\ systems = <<>>
    /\ systems_by_type = EmptyDict
    /\ is_active = [s \in SysIds |-> TRUE]
    /\ running = {}
    /\ hook_error = FALSE
    /\ log = <<>>
    /\ delta_time = 0
    /\ total_time = 0
    /\ dts = <<>>
    /\ health = [c \in HealthIds |-> HealthComponent(MaxHealth)]
    /\ position = [c \in TransformIds |-> Vector2(0, 0)]
    /\ velocity = [c \in VelocityIds |-> Vector2(0, 0)]
    /\ timer = [c \in TimerIds |-> TimerComponent(1, FALSE)]
    /\ RenderDefaults

\* create_entity() without an id, or with an id that is not in use:
\* uuid4 never yields an id of the store
CreateEntityNew ==
    \E id \in EntityIds \ entities :
        Commit(create_entity(Store, id))

\* create_entity(entity_id) with an id that is in use
CreateEntityDuplicate ==
    \E id \in entities :
        Commit(create_entity(Store, id))

\* The orders in which a dict with these keys can list them
KeyOrders(keys) ==
    {q \in [1..Cardinality(keys) -> keys] : \A i, j \in DOMAIN q : i # j => q[i] # q[j]}

\* list(self.components[entity.id].keys()), when the entity is in the store
KeyLists(st, e) ==
    IF e \in DOMAIN st.components THEN KeyOrders(DOMAIN st.components[e]) ELSE {<<>>}

DestroyEntity ==
    \E e \in EntityIds :
        \E keys \in KeyLists(Store, e) :
            Commit(destroy_entity(Store, e, keys))

AddComponent ==
    \E e \in EntityIds, c \in CompIds :
        Commit(add_component(Store, e, c))

RemoveComponent ==
    \E e \in EntityIds, T \in Types :
        Commit(remove_component(Store, e, T))

AddSystem ==
    \E s \in SysIds :
        CommitSched(add_system(Sched, s)) /\ UNCHANGED log

RemoveSystem ==
    \E T \in SysTypes :
        CommitSched(remove_system(Sched, T)) /\ UNCHANGED log

\* system.is_active = b, on any system instance, registered or not
SetActive ==
    \E s \in SysIds, b \in BOOLEAN :
        CommitSched(Outcome([Sched EXCEPT !.is_active[s] = b], "None")) /\ UNCHANGED log

\* SystemManager.clear()
ClearSystems ==
    CommitSched(clear(Sched)) /\ UNCHANGED log

\* The systems a trace records an update of, in order
Updated(tr) ==
    LET ups == SelectSeq(tr, LAMBDA ev : ev.ev = "update")
    IN [i \in DOMAIN ups |-> ups[i].obj]

\* SystemManager.update(delta_time): one tick of the scheduler
Tick ==
    LET r == update(Sched)
    IN CommitSched(r) /\ log' = Updated(r.st.trace)

\* The key lists destroy_entity can walk, one for each entity of the store
KeyListsOf(st) ==
    {k \in [st.entities -> UNION {KeyLists(st, e) : e \in st.entities}] :
        \A e \in st.entities : k[e] \in KeyLists(st, e)}

\* World.clear()
WorldClear ==
    \E ids \in KeyOrders(entities), keys \in KeyListsOf(World) :
        /\ entities' = world_clear(World, ids, keys).st.entities
        /\ components' = world_clear(World, ids, keys).st.components
        /\ component_index' = world_clear(World, ids, keys).st.component_index
        /\ owner' = world_clear(World, ids, keys).st.owner
        /\ systems' = world_clear(World, ids, keys).st.systems
        /\ systems_by_type' = world_clear(World, ids, keys).st.systems_by_type
        /\ is_active' = world_clear(World, ids, keys).st.is_active
        /\ running' = world_clear(World, ids, keys).st.running
        /\ hook_error' = world_clear(World, ids, keys).st.hook_error
        /\ UNCHANGED log
        /\ UNCHANGED worldVars
        /\ UNCHANGED fieldVars
        /\ UNCHANGED renderVars

\* World.update(dt), once per frame, with a delta of 0..MaxDt time units
WorldUpdate ==
    \E dt \in 0..MaxDt :
        /\ Len(dts) < MaxTicks
        /\ systems' = world_update(World, dt).st.systems
        /\ systems_by_type' = world_update(World, dt).st.systems_by_type
        /\ is_active' = world_update(World, dt).st.is_active
        /\ running' = world_update(World, dt).st.running
        /\ hook_error' = world_update(World, dt).st.hook_error
        /\ log' = Updated(world_update(World, dt).st.trace)
        /\ delta_time' = world_update(World, dt).st.delta_time
        /\ total_time' = world_update(World, dt).st.total_time
        /\ dts' = Append(dts, dt)
        /\ UNCHANGED storeVars
        /\ UNCHANGED fieldVars
        /\ UNCHANGED renderVars

\* add_component with a HealthComponent, or with the first of the other components
AddHealthComponent ==
    \E e \in EntityIds, c \in HealthIds \cup {1} :
        Commit(add_component(Store, e, c))

\* health.take_damage(d) and health.heal(a), on any HealthComponent
TakeDamage ==
    \E c \in HealthIds, d \in 0..MaxAmount :
        /\ health' = [health EXCEPT ![c] = take_damage(@, d)]
        /\ UNCHANGED <<storeVars, schedVars, worldVars, position, velocity, timer, renderVars>>

Heal ==
    \E c \in HealthIds, a \in 0..MaxAmount :
        /\ health' = [health EXCEPT ![c] = heal(@, a)]
        /\ UNCHANGED <<storeVars, schedVars, worldVars, position, velocity, timer, renderVars>>

\* One tick of the HealthSystem of the world
HealthTick ==
    \E listed \in KeyOrders(get_entities_with_component(World, "HealthComponent")) :
        \E keys \in KeyListsOf(World) :
            Commit(HealthSystem_update(World, listed, keys))

\* The lists the two queries of a tick return, in the order of the index sets
Movers(w) == KeyOrders(get_entities_with_components(w, <<"TransformComponent", "VelocityComponent">>))
Bounded(w) == KeyOrders(get_entities_with_component(w, "TransformComponent"))

\* One tick, with a delta of 1..MaxDt
MoveTick ==
    \E dt \in 1..MaxDt, movers \in Movers(World), bounded \in Bounded(World) :
        /\ position' = MoveThenBound(World, movers, bounded, dt).st.position
        /\ UNCHANGED <<storeVars, schedVars, worldVars, health, velocity, timer, renderVars>>

\* One tick of the TimerSystem of the world, with a delta of 0..MaxDt
TimerTick ==
    \E dt \in 0..MaxDt :
        \E listed \in KeyOrders(get_entities_with_component(World, "TimerComponent")) :
            /\ \A c \in TimerIds : Len(timer[c].given) < MaxUpdates
            /\ timer' = TimerSystem_update(World, listed, dt).st.timer
            /\ UNCHANGED <<storeVars, schedVars, worldVars, health, position, velocity, renderVars>>

\* timer.reset(), on any TimerComponent
TimerReset ==
    \E c \in TimerIds :
        /\ timer' = [timer EXCEPT ![c] = TimerComponent_reset(@)]
        /\ UNCHANGED <<storeVars, schedVars, worldVars, health, position, velocity, renderVars>>

NextFresh ==
    \/ CreateEntityNew
    \/ DestroyEntity
    \/ AddComponent
    \/ RemoveComponent

Next ==
    \/ CreateEntityNew
    \/ CreateEntityDuplicate
    \/ DestroyEntity
    \/ AddComponent
    \/ RemoveComponent

NextSched ==
    \/ AddSystem
    \/ RemoveSystem
    \/ SetActive
    \/ Tick

\* The entity store under every call sequence
Spec == Init /\ [][Next]_vars
\* The entity store when every created entity gets an id that is not in use
SpecFresh == Init /\ [][NextFresh]_vars
\* The scheduler under every sequence of registrations, removals, flag changes and ticks
SpecSched == Init /\ [][NextSched]_vars

\* The scheduler under registrations, removals, flag changes and clears
NextStruct ==
    \/ AddSystem
    \/ RemoveSystem
    \/ SetActive
    \/ ClearSystems
SpecStruct == Init /\ [][NextStruct]_vars

\* The clock and the scheduler of a world under registrations, removals and frames
NextClock ==
    \/ AddSystem
    \/ RemoveSystem
    \/ WorldUpdate
SpecClock == Init /\ [][NextClock]_vars

\* A world that is filled, with ids in use too, and cleared
NextWorld ==
    \/ CreateEntityNew
    \/ CreateEntityDuplicate
    \/ AddComponent
    \/ AddSystem
    \/ WorldClear
SpecWorld == Init /\ [][NextWorld]_vars

\* Entities with HealthComponents, damaged and healed, under the HealthSystem
NextHealth ==
    \/ CreateEntityNew
    \/ CreateEntityDuplicate
    \/ AddHealthComponent
    \/ TakeDamage
    \/ Heal
    \/ HealthTick
SpecHealth == Init /\ [][NextHealth]_vars

\* Entities with transforms and velocities under the movement and boundary systems
\* The store starts with entity 1 holding a transform and a velocity and
\* entity 2 holding the other transform, each constructed with a position or a
\* velocity of the tables; a frame is the only step.
Abscissas == {0, 400, 795}
Ordinates == {0, 300}
Speeds == {-20, 0, 20}
MoveStore(t, u, v) ==
    LET s0 == [entities |-> {}, components |-> EmptyDict, component_index |-> EmptyDict,
               owner |-> [c \in CompIds |-> {}], trace |-> <<>>]
        s1 == add_component(create_entity(s0, 1).st, 1, t).st
        s2 == add_component(s1, 1, v).st
    IN add_component(create_entity(s2, 2).st, 2, u).st
InitMove ==
    /\ \E t \in TransformIds, u \in TransformIds, v \in VelocityIds :
          /\ t # u
          /\ entities = MoveStore(t, u, v).entities
          /\ components = MoveStore(t, u, v).components
          /\ component_index = MoveStore(t, u, v).component_index
          /\ owner = MoveStore(t, u, v).owner
    /\ systems = <<>>
    /\ systems_by_type = EmptyDict
    /\ is_active = [s \in SysIds |-> TRUE]
    /\ running = {}
    /\ hook_error = FALSE
    /\ log = <<>>
    /\ delta_time = 0
    /\ total_time = 0
    /\ dts = <<>>
    /\ health = [c \in HealthIds |-> HealthComponent(MaxHealth)]
    /\ position \in [TransformIds -> {Vector2(x, y) : x \in Abscissas, y \in Ordinates}]
    /\ velocity \in [VelocityIds -> {Vector2(x, y) : x \in Speeds, y \in Speeds}]
    /\ timer = [c \in TimerIds |-> TimerComponent(1, FALSE)]
    /\ RenderDefaults
SpecMove == InitMove /\ [][MoveTick]_vars

\* The store holds every entity id, one of them with the TimerComponent, which
\* was constructed with a duration of 0..MaxDuration, repeating or not; the
\* steps are the ticks of the TimerSystem and the resets.
RECURSIVE CreateEach(_, _)
CreateEach(st, n) ==
    IF n = 0 THEN st ELSE create_entity(CreateEach(st, n - 1), n).st
TimerStore(e, c) ==
    LET s0 == [entities |-> {}, components |-> EmptyDict, component_index |-> EmptyDict,
               owner |-> [x \in CompIds |-> {}], trace |-> <<>>]
    IN add_component(CreateEach(s0, MaxEntities), e, c).st
InitTimer ==
    /\ \E e \in EntityIds, c \in TimerIds :
          /\ entities = TimerStore(e, c).entities
          /\ components = TimerStore(e, c).components
          /\ component_index = TimerStore(e, c).component_index
          /\ owner = TimerStore(e, c).owner
    /\ systems = <<>>
    /\ systems_by_type = EmptyDict
    /\ is_active = [s \in SysIds |-> TRUE]
    /\ running = {}
    /\ hook_error = FALSE
    /\ log = <<>>
    /\ delta_time = 0
    /\ total_time = 0
    /\ dts = <<>>
    /\ health = [c \in HealthIds |-> HealthComponent(MaxHealth)]
    /\ position = [c \in TransformIds |-> Vector2(0, 0)]
    /\ velocity = [c \in VelocityIds |-> Vector2(0, 0)]
    /\ timer \in [TimerIds -> {TimerComponent(d, r) : d \in 0..MaxDuration, r \in BOOLEAN}]
    /\ RenderDefaults
NextTimer ==
    \/ TimerTick
    \/ TimerReset
SpecTimer == InitTimer /\ [][NextTimer]_vars

\* Every entity id is in the store and entity e holds the e-th HealthComponent,
\* constructed with a max_health of 1..MaxHealth and a current_health of
\* 0..max_health; the steps are the damages, the heals and the ticks of the
\* HealthSystem.
RECURSIVE HoldEach(_, _)
HoldEach(st, n) ==
    IF n = 0 THEN st
    ELSE add_component(HoldEach(st, n - 1), n, Len(CompTypeNames) + n).st
DamageStore ==
    LET s0 == [entities |-> {}, components |-> EmptyDict, component_index |-> EmptyDict,
               owner |-> [x \in CompIds |-> {}], trace |-> <<>>]
    IN HoldEach(CreateEach(s0, MaxEntities), Min(MaxEntities, MaxHealthComps))
InitDamage ==
    /\ entities = DamageStore.entities
    /\ components = DamageStore.components
    /\ component_index = DamageStore.component_index
    /\ owner = DamageStore.owner
    /\ systems = <<>>
    /\ systems_by_type = EmptyDict
    /\ is_active = [s \in SysIds |-> TRUE]
    /\ running = {}
    /\ hook_error = FALSE
    /\ log = <<>>
    /\ delta_time = 0
    /\ total_time = 0
    /\ dts = <<>>
    /\ health \in [HealthIds -> {HealthComponentAt(m, c) : m \in 1..MaxHealth, c \in 0..MaxHealth}]
    /\ \A c \in HealthIds : health[c].current_health <= health[c].max_health
    /\ position = [c \in TransformIds |-> Vector2(0, 0)]
    /\ velocity = [c \in VelocityIds |-> Vector2(0, 0)]
    /\ timer = [c \in TimerIds |-> TimerComponent(1, FALSE)]
    /\ RenderDefaults
NextDamage ==
    \/ TakeDamage
    \/ Heal
    \/ HealthTick
SpecDamage == InitDamage /\ [][NextDamage]_vars

\* The same, with every HealthComponent constructed alive: 0 < current_health
InitAlive ==
    /\ InitDamage
    /\ \A c \in HealthIds : health[c].current_health > 0
SpecAlive == InitAlive /\ [][NextDamage]_vars

\* A world for whole frames.  Every entity id is in the store; entity e holds
\* the e-th HealthComponent, entity 1 a transform and a velocity of (1, 0),
\* entity 2 the other transform, and one entity the repeating TimerComponent of
\* duration 1.  The components were added in the order InsertionOrder.
InsertionOrder ==
    <<"HealthComponent", "TransformComponent", "VelocityComponent", "TimerComponent">>
FrameStore(e, c) ==
    LET s1 == add_component(DamageStore, 1, 1).st
        s2 == add_component(s1, 1, 2).st
        s3 == add_component(s2, 2, 3).st
    IN add_component(s3, e, c).st
InitFrame ==
    /\ \E e \in EntityIds, c \in TimerIds :
          /\ entities = FrameStore(e, c).entities
          /\ components = FrameStore(e, c).components
          /\ component_index = FrameStore(e, c).component_index
          /\ owner = FrameStore(e, c).owner
    /\ systems = <<>>
    /\ systems_by_type = EmptyDict
    /\ is_active = [s \in SysIds |-> TRUE]
    /\ running = {}
    /\ hook_error = FALSE
    /\ log = <<>>
    /\ delta_time = 0
    /\ total_time = 0
    /\ dts = <<>>
    /\ health = [c \in HealthIds |-> HealthComponent(MaxHealth)]
    /\ position = [c \in TransformIds |-> Vector2(0, 0)]
    /\ velocity = [c \in VelocityIds |-> Vector2(1, 0)]
    /\ timer = [c \in TimerIds |-> TimerComponent(1, TRUE)]
    /\ RenderDefaults

\* The frames in which no update raises and none changes the schedule
PlainEnvs ==
    {[ord |-> o, tord |-> InsertionOrder, raising |-> 0, who |-> 0, what |-> NoChange] :
        o \in KeyOrders(EntityIds)}

\* The state a frame leaves, whether it returned or raised
CommitFrame(r, dt) ==
    /\ entities' = r.st.entities
    /\ components' = r.st.components
    /\ component_index' = r.st.component_index
    /\ owner' = r.st.owner
    /\ systems' = r.st.systems
    /\ systems_by_type' = r.st.systems_by_type
    /\ is_active' = r.st.is_active
    /\ running' = r.st.running
    /\ hook_error' = r.st.hook_error
    /\ log' = Updated(r.st.trace)
    /\ delta_time' = r.st.delta_time
    /\ total_time' = r.st.total_time
    /\ dts' = Append(dts, dt)
    /\ position' = r.st.position
    /\ timer' = r.st.timer
    /\ UNCHANGED <<health, velocity, renderVars>>

\* World.update(dt) with a delta of 1..MaxDt
Frame ==
    \E dt \in 1..MaxDt, env \in PlainEnvs :
        /\ Len(dts) < MaxTicks
        /\ CommitFrame(world_frame(World, dt, env), dt)

\* Frames of a world whose entities are damaged and re-created under their ids
NextFrame ==
    \/ AddSystem
    \/ TakeDamage
    \/ CreateEntityDuplicate
    \/ Frame
SpecFrame == InitFrame /\ [][NextFrame]_vars

\* The frames in which the update of one registered system raises, or of none
RaisingEnvs ==
    {[ord |-> o, tord |-> InsertionOrder, raising |-> x, who |-> 0, what |-> NoChange] :
        o \in KeyOrders(EntityIds), x \in {systems[i] : i \in DOMAIN systems} \cup {0}}

\* World.update(dt) in which an update may raise: the caller catches the
\* exception and goes on with the world as the frame left it
FrameRaising ==
    \E dt \in 1..MaxDt, env \in RaisingEnvs :
        /\ Len(dts) < MaxTicks
        /\ CommitFrame(world_frame(World, dt, env), dt)

\* The world above after add_system with a HealthSystem, a MovementSystem, a
\* BoundarySystem and a TimerSystem of priority 200, in that order, with the
\* timer on entity 1 and each HealthComponent intact or damaged to death; the
\* steps are the frames
RECURSIVE RegisterEach(_, _)
RegisterEach(sm, list) ==
    IF list = <<>> THEN sm
    ELSE RegisterEach(add_system(sm, Head(list)).st, Tail(list))
FrameSched ==
    RegisterEach([systems |-> <<>>, systems_by_type |-> EmptyDict,
                  is_active |-> [s \in SysIds |-> TRUE], running |-> {},
                  hook_error |-> FALSE, trace |-> <<>>], <<2, 3, 4, 5>>)
InitAbort ==
    /\ \E c \in TimerIds :
          /\ entities = FrameStore(1, c).entities
          /\ components = FrameStore(1, c).components
          /\ component_index = FrameStore(1, c).component_index
          /\ owner = FrameStore(1, c).owner
    /\ systems = FrameSched.systems
    /\ systems_by_type = FrameSched.systems_by_type
    /\ is_active = FrameSched.is_active
    /\ running = FrameSched.running
    /\ hook_error = FrameSched.hook_error
    /\ log = <<>>
    /\ delta_time = 0
    /\ total_time = 0
    /\ dts = <<>>
    /\ health \in [HealthIds -> {HealthComponent(MaxHealth),
                                 take_damage(HealthComponent(MaxHealth), MaxHealth)}]
    /\ position = [c \in TransformIds |-> Vector2(0, 0)]
    /\ velocity = [c \in VelocityIds |-> Vector2(1, 0)]
    /\ timer = [c \in TimerIds |-> TimerComponent(1, TRUE)]
    /\ RenderDefaults
SpecAbort == InitAbort /\ [][FrameRaising]_vars

\* The frames in which the update of one registered system ends with a call
\* of remove_system or of add_system on its world
Changes ==
    {[op |-> "remove", type |-> T, sys |-> 0] : T \in SysTypes}
        \cup {[op |-> "add", type |-> "", sys |-> s] : s \in SysIds}
ChangingEnvs ==
    {[ord |-> o, tord |-> InsertionOrder, raising |-> 0, who |-> x, what |-> ch] :
        o \in KeyOrders(EntityIds), x \in {systems[i] : i \in DOMAIN systems},
        ch \in Changes}

\* World.update(dt) in which an update changes the schedule
FrameChanging ==
    \E dt \in 1..MaxDt, env \in ChangingEnvs :
        /\ Len(dts) < MaxTicks
        /\ CommitFrame(world_frame(World, dt, env), dt)

SpecHot == InitAbort /\ [][FrameChanging]_vars

\* A world to render.  Every entity id is in the store and entity e holds the
\* e-th SpriteComponent, of any shape; entities 1 and 2 hold the transforms; the
\* entities have a z_order of ZOrders.  The steps: a sprite is shown or hidden,
\* a component is removed, the RenderSystem is updated.
ZOrders == {0, 1}
RECURSIVE SpriteEach(_, _)
SpriteEach(st, n) ==
    IF n = 0 THEN st
    ELSE add_component(SpriteEach(st, n - 1), n, Len(CompTypeNames) + MaxHealthComps + 1 + n).st
RenderStore ==
    LET s0 == [entities |-> {}, components |-> EmptyDict, component_index |-> EmptyDict,
               owner |-> [x \in CompIds |-> {}], trace |-> <<>>]
        s1 == SpriteEach(CreateEach(s0, MaxEntities), MaxEntities)
        s2 == add_component(s1, 1, 1).st
    IN add_component(s2, 2, 3).st
InitRender ==
    /\ entities = RenderStore.entities
    /\ components = RenderStore.components
    /\ component_index = RenderStore.component_index
    /\ owner = RenderStore.owner
    /\ systems = <<>>
    /\ systems_by_type = EmptyDict
    /\ is_active = [s \in SysIds |-> TRUE]
    /\ running = {}
    /\ hook_error = FALSE
    /\ log = <<>>
    /\ delta_time = 0
    /\ total_time = 0
    /\ dts = <<>>
    /\ health = [c \in HealthIds |-> HealthComponent(MaxHealth)]
    /\ position = [c \in TransformIds |-> Vector2(0, 0)]
    /\ velocity = [c \in VelocityIds |-> Vector2(0, 0)]
    /\ timer = [c \in TimerIds |-> TimerComponent(1, FALSE)]
    /\ sprite \in [SpriteIds -> {SpriteComponent(sh) : sh \in Shapes}]
    /\ z_order \in [EntityIds -> ZOrders]
    /\ drawn = <<>>

\* sprite.visible = b, on any SpriteComponent
SetVisible ==
    \E c \in SpriteIds, b \in BOOLEAN :
        /\ sprite' = [sprite EXCEPT ![c].visible = b]
        /\ UNCHANGED <<storeVars, schedVars, worldVars, fieldVars, z_order, drawn>>

\* The lists the query of the RenderSystem returns, in the order of the index sets
Renderable(w) ==
    KeyOrders(get_entities_with_components(w, <<"TransformComponent", "SpriteComponent">>))

\* One update of the RenderSystem of the world
RenderTick ==
    \E listed \in Renderable(World) :
        /\ drawn' = RenderSystem_update(World, listed).st.drawn
        /\ UNCHANGED <<storeVars, schedVars, worldVars, fieldVars, sprite, z_order>>

NextRender ==
    \/ SetVisible
    \/ RemoveComponent
    \/ RenderTick
SpecRender == InitRender /\ [][NextRender]_vars

\* ------------------------------------------------------------ properties
DestroyCalls(tr, c) == Cardinality({i \in DOMAIN tr : tr[i].ev = "destroy" /\ tr[i].obj = c})
Held(st, e) == {st.components[e][T] : T \in DOMAIN st.components[e]}

\* C1 (SpecFresh): index consistency.  For every type T and entity id e, e is in
\* the type index of T if and only if has_component(e, T) is true.
C1_IndexConsistency ==
    \A T \in Types, e \in EntityIds :
        (e \in IndexGet(Store, T)) <=> (has_component(Store, e, T) = "True")

\* A component has been taken off an entity that is still in the store (its
\* back-reference still names the entity) while an index is non-empty
C1_Witness ==
    /\ \E c \in CompIds : \E e \in owner[c] : e \in entities /\ c \notin Held(Store, e)
    /\ \E T \in Types : IndexGet(Store, T) # {}

\* The type lists a query is called with
MaxQuery == 2
TypeLists == UNION {[1..n -> Types] : n \in 0..MaxQuery}

\* C2: query correctness.  In every reachable store, query(T1..Tn) is exactly the
\* set of existing entities that hold every listed type (all entities for no type).
C2_QueryExact ==
    \A ts \in TypeLists :
        get_entities_with_components(Store, ts) =
            {e \in entities : \A i \in DOMAIN ts : has_component(Store, e, ts[i]) = "True"}

\* C3: destroy cascades.  destroy_entity on an existing entity holding N components
\* calls the destroy hook of each of them once, N calls in all, removes the id
\* from every type index and removes the entity.
Cascaded(r, e, held) ==
    /\ Len(r.st.trace) = Cardinality(held)
    /\ \A c \in held : DestroyCalls(r.st.trace, c) = 1
    /\ \A T \in Types : e \notin IndexGet(r.st, T)
    /\ e \notin r.st.entities
    /\ e \notin DOMAIN r.st.components
C3_DestroyCascades ==
    \A e \in entities : \A keys \in KeyLists(Store, e) :
        Cascaded(destroy_entity(Store, e, keys), e, Held(Store, e))

\* C4: idempotent destroy.  destroy_entity on an id that is not in the store
\* raises nothing, calls no hook and changes nothing; so a second destroy of an
\* id leaves the state the first one left.
NoOpDestroy(st, e) ==
    \A keys \in KeyLists(st, e) : destroy_entity(st, e, keys) = Outcome(st, "None")
C4_DestroyIdempotent ==
    \A e \in EntityIds :
        /\ (e \notin entities) => NoOpDestroy(Store, e)
        /\ \A keys \in KeyLists(Store, e) :
              NoOpDestroy(destroy_entity(Store, e, keys).st, e)

\* An id that was destroyed while a component named it is not in the store,
\* which holds another entity and a non-empty index
C4_Witness ==
    /\ \E e \in EntityIds \ entities : \E c \in CompIds : owner[c] = {e}
    /\ entities # {}
    /\ DOMAIN component_index # {}

\* C5: at most one per type.  On an entity e that holds c1 (every state that
\* add_component(e, c1) leaves is such a state), add_component(e, c2) with c2 of
\* the type T of c1 calls the destroy hook of c1 once, before e is indexed for
\* c2, and afterwards get_component(e, T) is c2.
Replaced(r, e, T, c1, c2) ==
    /\ get_component(r.st, e, T) = [ret |-> "Component", obj |-> c2]
    /\ has_component(r.st, e, T) = "True"
    /\ DestroyCalls(r.st.trace, c1) = 1
    /\ r.st.trace = <<Event("destroy", e, T, c1), Event("index", e, T, c2)>>
C5_ReplaceSameType ==
    \A e \in entities, c2 \in CompIds :
        (TypeOf(c2) \in DOMAIN components[e]) =>
            Replaced(add_component(Store, e, c2), e, TypeOf(c2), components[e][TypeOf(c2)], c2)

\* An entity holds a component that replaced another instance of its type
C5_Witness ==
    \E e \in entities, c1 \in CompIds, c2 \in CompIds :
        /\ c1 # c2
        /\ TypeOf(c1) = TypeOf(c2)
        /\ owner[c1] = {e}
        /\ owner[c2] = {e}
        /\ c2 \in Held(Store, e)

\* C6 (SpecSched): scheduler ordering.  A tick calls update on exactly the
\* registered systems whose is_active is set, each once, in non-decreasing
\* priority order, calls nothing else and leaves the schedule as it was.
IsActive(s) == is_active[s]
Scheduled == {systems[i] : i \in DOMAIN systems}
InPriorityOrder(seq) ==
    \A i, j \in DOMAIN seq : i < j => seq[i] # seq[j] /\ PriorityOf(seq[i]) <= PriorityOf(seq[j])
Ticked(r, ups) ==
    /\ ups = SelectSeq(systems, IsActive)
    /\ Len(r.st.trace) = Len(ups)
    /\ InPriorityOrder(ups)
    /\ r.st.systems = systems
    /\ r.st.systems_by_type = systems_by_type
C6_SchedulerOrdering ==
    /\ Ticked(update(Sched), Updated(update(Sched).st.trace))
    /\ InPriorityOrder(log)

\* The latest tick ran over the four systems now registered, updated three of
\* them and skipped the inactive one
C6_Witness ==
    /\ Len(systems) = 4
    /\ Len(log) = 3
    /\ log = SelectSeq(systems, IsActive)

\* C7: create_entity with an id that is in use fails with DuplicateIdError and
\* leaves the store unchanged.
C7_DuplicateIdRejected ==
    \A id \in entities :
        create_entity(Store, id) = Outcome(Store, "DuplicateIdError")

Removed(r, e, T) ==
    IF has_component(Store, e, T) = "True"
    THEN /\ r.ret = "True"
         /\ r.st.trace = <<Event("destroy", e, T, components[e][T])>>
         /\ has_component(r.st, e, T) = "False"
         /\ remove_component(r.st, e, T) = Outcome(r.st, "False")
    ELSE r = Outcome(Store, "False")
C9_RemoveIdempotent ==
    \A e \in entities, T \in Types : Removed(remove_component(Store, e, T), e, T)

\* An entity holds components of two types, one of them removed and added
\* again before
C9_Witness ==
    \E e \in entities :
        /\ Cardinality(DOMAIN components[e]) = 2
        /\ \E c \in CompIds : owner[c] = {e} /\ c \notin Held(Store, e)

\* C10 (SpecSched): system lifecycle.  A registration calls start once, on the
\* registered instance (after the stop of the instance it replaces, if any); a
\* removal calls stop once, on the removed instance, which is then off the
\* schedule and not updated by a tick; a tick calls only update, on scheduled
\* systems.  start and stop alternate on every instance, and the instances
\* started and not stopped since are the scheduled ones, whatever the flags.
Registered(r, s, T) ==
    /\ r.st.trace =
          (IF T \in DOMAIN systems_by_type
           THEN <<Event("stop", 0, "", systems_by_type[T])>> ELSE <<>>)
          \o <<Event("start", 0, "", s)>>
    /\ \E i \in DOMAIN r.st.systems : r.st.systems[i] = s
OnlyUpdates(tr, scheduled) ==
    \A i \in DOMAIN tr : tr[i].ev = "update" /\ tr[i].obj \in scheduled
Unregistered(r, T) ==
    IF T \in DOMAIN systems_by_type
    THEN /\ r.ret = "True"
         /\ r.st.trace = <<Event("stop", 0, "", systems_by_type[T])>>
         /\ \A i \in DOMAIN r.st.systems : r.st.systems[i] # systems_by_type[T]
         /\ OnlyUpdates(update([r.st EXCEPT !.trace = <<>>]).st.trace,
                        Scheduled \ {systems_by_type[T]})
    ELSE r = Outcome(Sched, "False")
C10_SystemLifecycle ==
    /\ ~hook_error
    /\ running = Scheduled
    /\ \A s \in SysIds : Registered(add_system(Sched, s), s, SysTypeOf(s))
    /\ \A T \in SysTypes : Unregistered(remove_system(Sched, T), T)
    /\ OnlyUpdates(update(Sched).st.trace, Scheduled)

\* A system updated in the latest tick has since been removed from a schedule
\* that keeps an inactive system
C10_Witness ==
    /\ \E i \in DOMAIN log : log[i] \notin Scheduled
    /\ \E s \in Scheduled : ~is_active[s]

\* C11 (SpecSched): registering a system whose type is registered replaces the
\* prior instance: its stop fires before the start of the new one, and then
\* the schedule holds one system of the type, the new one, which get_system
\* returns and which alone of its type is updated by a tick.
OfType(seq, T) == SelectSeq(seq, LAMBDA x : SysTypeOf(x) = T)
Replacing(r, s, T) ==
    /\ r.st.trace = <<Event("stop", 0, "", systems_by_type[T]), Event("start", 0, "", s)>>
    /\ OfType(r.st.systems, T) = <<s>>
    /\ get_system(r.st, T) = {s}
    /\ OfType(Updated(update([r.st EXCEPT !.trace = <<>>]).st.trace), T)
          = (IF r.st.is_active[s] THEN <<s>> ELSE <<>>)
C11_ReplacePriorInstance ==
    \A s \in SysIds :
        (SysTypeOf(s) \in DOMAIN systems_by_type) =>
            Replacing(add_system(Sched, s), s, SysTypeOf(s))

\* The registered system of a type is a second instance of it, registered after
\* the first one was updated by the latest tick
C11_Witness ==
    \E i \in DOMAIN log :
        /\ SysTypeOf(log[i]) \in DOMAIN systems_by_type
        /\ systems_by_type[SysTypeOf(log[i])] # log[i]
        /\ systems_by_type[SysTypeOf(log[i])] \in Scheduled

\* C12 (SpecSched): stable tie-break.  A registered system comes after the
\* registered systems of its priority, and a registration or removal keeps the
\* relative order of the other systems, so that systems of equal priority stand
\* in the schedule, and are updated by a tick, in the order of registration.
Pos(seq, x) == CHOOSE i \in DOMAIN seq : seq[i] = x
Members(seq) == {seq[i] : i \in DOMAIN seq}
OrderKept(before, after, moved) ==
    \A x \in Members(before) \ moved, y \in Members(before) \ moved :
        (x \in Members(after) /\ y \in Members(after) /\ Pos(before, x) < Pos(before, y))
            => Pos(after, x) < Pos(after, y)
LastOfTies(seq, s) ==
    \A x \in Members(seq) :
        (x # s /\ PriorityOf(x) = PriorityOf(s)) => Pos(seq, x) < Pos(seq, s)
C12_StableTieBreak ==
    /\ \A s \in SysIds :
          /\ OrderKept(systems, add_system(Sched, s).st.systems, {s})
          /\ LastOfTies(add_system(Sched, s).st.systems, s)
    /\ \A T \in SysTypes :
          OrderKept(systems, remove_system(Sched, T).st.systems, {})
    /\ OrderKept(systems, Updated(update(Sched).st.trace), {})

\* Two systems of one priority are registered and were updated by the latest
\* tick, the one with the larger instance number first
C12_Witness ==
    \E i \in DOMAIN log, j \in DOMAIN log :
        /\ i < j
        /\ log[i] > log[j]
        /\ PriorityOf(log[i]) = PriorityOf(log[j])
        /\ log = systems

\* C13 (SpecSched): remove_system of a type that is not registered returns
\* false, calls no stop hook and leaves the schedule unchanged; of a registered
\* type it returns true.
C13_RemoveUnregistered ==
    \A T \in SysTypes :
        IF T \in DOMAIN systems_by_type
        THEN remove_system(Sched, T).ret = "True"
        ELSE remove_system(Sched, T) = Outcome(Sched, "False")

\* A type that the latest tick updated a system of is no longer registered,
\* while other systems are
C13_Witness ==
    /\ systems # <<>>
    /\ \E i \in DOMAIN log : SysTypeOf(log[i]) \notin DOMAIN systems_by_type

\* C14 (SpecClock): World.update(dt) records dt as the last delta and adds it
\* to the cumulative time before it runs the scheduler: every system updated in
\* the tick reads the advanced total time and the new delta; after any ticks
\* total_time is the sum of the deltas passed and delta_time is the last one.
RECURSIVE SumSeq(_)
SumSeq(seq) == IF seq = <<>> THEN 0 ELSE Head(seq) + SumSeq(Tail(seq))
ClockAdvancedFirst(r, dt) ==
    /\ r.st.delta_time = dt
    /\ r.st.total_time = total_time + dt
    /\ Len(r.st.seen) = Len(Updated(r.st.trace))
    /\ \A i \in DOMAIN r.st.seen :
          r.st.seen[i] = [system |-> Updated(r.st.trace)[i],
                          total_time |-> total_time + dt, delta_time |-> dt]
C14_ClockBeforeScheduler ==
    /\ total_time = SumSeq(dts)
    /\ delta_time = (IF dts = <<>> THEN 0 ELSE dts[Len(dts)])
    /\ \A dt \in 0..MaxDt : ClockAdvancedFirst(world_update(World, dt), dt)

\* Two frames with different deltas have run, the second over two systems
C14_Witness ==
    /\ Len(dts) = 2
    /\ dts[1] # dts[2]
    /\ dts[2] > 0
    /\ Len(log) = 2
    /\ total_time = dts[1] + dts[2]

\* C15 (SpecWorld): World.clear() tears down systems before entities: the stop
\* hook of every registered system fires once, before any destroy hook of a
\* component, and afterwards the world has no registered systems, no entities,
\* no components and empty type indices.
StopsThenDestroys(tr, n) ==
    /\ Len(tr) >= n
    /\ \A i \in DOMAIN tr : tr[i].ev = (IF i <= n THEN "stop" ELSE "destroy")
    /\ \A i \in DOMAIN systems :
          Cardinality({j \in 1..n : tr[j].obj = systems[i]}) = 1
Cleared(r) ==
    /\ StopsThenDestroys(r.st.trace, Len(systems))
    /\ r.st.systems = <<>>
    /\ r.st.systems_by_type = EmptyDict
    /\ r.st.running = {}
    /\ r.st.entities = {}
    /\ r.st.components = EmptyDict
    /\ r.st.component_index = EmptyDict
C15_ClearSystemsFirst ==
    \A ids \in KeyOrders(entities), keys \in KeyListsOf(World) :
        Cleared(world_clear(World, ids, keys))

\* C16 (SpecHealth): one tick of the HealthSystem destroys every entity whose
\* HealthComponent is dead at that moment (the entity and all its components
\* leave the store and the indices) and no entity whose HealthComponent is not
\* dead or that holds none.
AllTypes == Types \cup {"HealthComponent"}
DeadEntities ==
    {e \in entities :
        /\ has_component(Store, e, "HealthComponent") = "True"
        /\ health[components[e]["HealthComponent"]].is_dead}
DeadDestroyed(r) ==
    /\ r.st.entities = entities \ DeadEntities
    /\ \A e \in DeadEntities :
          /\ e \notin DOMAIN r.st.components
          /\ \A T \in AllTypes : e \notin IndexGet(r.st, T)
          /\ \A c \in Held(Store, e) : DestroyCalls(r.st.trace, c) >= 1
    /\ \A e \in entities \ DeadEntities :
          /\ r.st.components[e] = components[e]
          /\ \A T \in AllTypes : (e \in IndexGet(r.st, T)) <=> (e \in IndexGet(Store, T))
C16_HealthDeath ==
    \A listed \in KeyOrders(get_entities_with_component(World, "HealthComponent")) :
        \A keys \in KeyListsOf(World) :
            DeadDestroyed(HealthSystem_update(World, listed, keys))

\* C17 (SpecHealth): after the HealthSystem has destroyed an entity,
\* has_component for that entity returns false for every component type.
DestroyedAnswerFalse(r) ==
    \A e \in entities \ r.st.entities, T \in AllTypes :
        has_component(r.st, e, T) = "False"
C17_HasComponentAfterDestroy ==
    \A listed \in KeyOrders(get_entities_with_component(World, "HealthComponent")) :
        \A keys \in KeyListsOf(World) :
            DestroyedAnswerFalse(HealthSystem_update(World, listed, keys))

\* C18 (SpecMove): movement and wrap-around boundary.  A coordinate that the
\* movement carries past the upper bound by k is wrapped to k: an entity at
\* (795, 300) with velocity (20, 0) is at (15, 300) after a tick with dt = 1.
OvershootKept(r, dt) ==
    \A e \in get_entities_with_components(World, <<"TransformComponent", "VelocityComponent">>) :
        LET t == components[e]["TransformComponent"]
            moved == Vector2_add(position[t],
                                 Vector2_mul(velocity[components[e]["VelocityComponent"]], dt))
        IN /\ (moved.x > screen_width /\ moved.y \in 0..screen_height)
                 => r.st.position[t] = Vector2(moved.x - screen_width, moved.y)
           /\ (moved.y > screen_height /\ moved.x \in 0..screen_width)
                 => r.st.position[t] = Vector2(moved.x, moved.y - screen_height)
C18_WrapKeepsOvershoot ==
    \A dt \in 1..MaxDt, movers \in Movers(World), bounded \in Bounded(World) :
        OvershootKept(MoveThenBound(World, movers, bounded, dt), dt)

\* C19 (SpecTimer): repeating timer.  An update that brings the elapsed time
\* of a repeating timer to its duration or beyond calls the callback once,
\* resets the elapsed time to 0 and leaves the finished flag false, and any
\* other update only adds to the elapsed time; so with updates totalling
\* exactly the duration the callback has fired once and the elapsed time is 0.
RepeatingStep(t, u, dt) ==
    /\ ~u.is_finished
    /\ IF t.current_time + dt >= t.duration
       THEN u.fired = t.fired + 1 /\ u.current_time = 0
       ELSE u.fired = t.fired /\ u.current_time = t.current_time + dt
C19_RepeatingTimer ==
    \A c \in TimerIds :
        timer[c].repeat =>
            /\ ~timer[c].is_finished
            /\ \A dt \in 0..MaxDt :
                  RepeatingStep(timer[c], TimerComponent_update(timer[c], dt), dt)
            /\ \A dt \in 0..MaxDt :
                  \A listed \in KeyOrders(get_entities_with_component(World, "TimerComponent")) :
                      RepeatingStep(timer[c], TimerSystem_update(World, listed, dt).st.timer[c], dt)
            /\ (timer[c].duration > 0 /\ SumSeq(timer[c].given) = timer[c].duration)
                  => (timer[c].fired = 1 /\ timer[c].current_time = 0)

\* A repeating timer has fired once, in the second of two updates that total
\* its duration
C19_Witness ==
    \E c \in TimerIds :
        /\ timer[c].repeat
        /\ Len(timer[c].given) = 2
        /\ timer[c].given[1] > 0
        /\ SumSeq(timer[c].given) = timer[c].duration
        /\ timer[c].fired = 1
        /\ timer[c].current_time = 0

\* C20 (SpecTimer): non-repeating timer.  Between resets the callback of a
\* non-repeating timer fires at most once, in the first update that brings the
\* elapsed time to the duration or beyond; from then on the finished flag is
\* set and an update changes neither the elapsed time nor the count of calls,
\* until reset() clears the flag and the elapsed time.
OneShotStep(t, u, dt) ==
    IF t.is_finished
    THEN u.is_finished /\ u.current_time = t.current_time /\ u.fired = t.fired
    ELSE /\ u.current_time = t.current_time + dt
         /\ IF u.current_time >= t.duration
            THEN u.is_finished /\ u.fired = t.fired + 1
            ELSE ~u.is_finished /\ u.fired = t.fired
C20_OneShotTimer ==
    \A c \in TimerIds :
        (~timer[c].repeat) =>
            /\ timer[c].fired <= 1
            /\ timer[c].is_finished <=> (timer[c].fired = 1)
            /\ (~timer[c].is_finished) =>
                  /\ timer[c].current_time = SumSeq(timer[c].given)
                  /\ timer[c].current_time < timer[c].duration \/ timer[c].given = <<>>
            /\ \A dt \in 0..MaxDt :
                  OneShotStep(timer[c], TimerComponent_update(timer[c], dt), dt)
            /\ ~TimerComponent_reset(timer[c]).is_finished
            /\ TimerComponent_reset(timer[c]).current_time = 0

\* A finished non-repeating timer has been updated again, with a delta that
\* its elapsed time does not include, and has fired once
C20_Witness ==
    \E c \in TimerIds :
        /\ ~timer[c].repeat
        /\ timer[c].is_finished
        /\ SumSeq(timer[c].given) > timer[c].current_time
        /\ timer[c].fired = 1

\* C21 (SpecDamage): health clamping.  take_damage(d) leaves current - d, or 0
\* with is_dead set when that is not positive; heal(a) leaves current + a, or
\* max_health when that is more, and clears is_dead; so current_health stays
\* within 0..max_health under every sequence of damages and heals.
Damaged(h, r, d) ==
    /\ r.max_health = h.max_health
    /\ IF h.current_health - d > 0
       THEN r.current_health = h.current_health - d /\ r.is_dead = h.is_dead
       ELSE r.current_health = 0 /\ r.is_dead
Healed(h, r, a) ==
    /\ r.max_health = h.max_health
    /\ r.current_health = (IF h.current_health + a < h.max_health
                           THEN h.current_health + a ELSE h.max_health)
    /\ ~r.is_dead
C21_HealthClamped ==
    \A c \in HealthIds :
        /\ health[c].current_health \in 0..health[c].max_health
        /\ \A d \in 0..MaxAmount : Damaged(health[c], take_damage(health[c], d), d)
        /\ \A a \in 0..MaxAmount : Healed(health[c], heal(health[c], a), a)

\* A component that was damaged below its max_health, where a damage exceeds
\* what is left, beside one that a heal would carry over its max_health
C21_Witness ==
    /\ \E c \in HealthIds, d \in 0..MaxAmount :
          /\ 0 < health[c].current_health
          /\ health[c].current_health < d
          /\ take_damage(health[c], d).current_health = 0
    /\ \E c \in HealthIds, a \in 0..MaxAmount :
          /\ health[c].is_dead
          /\ health[c].current_health + a > health[c].max_health
          /\ heal(health[c], a).current_health = health[c].max_health

\* C30 (SpecAlive): health flag coherence.  After any sequence of damages and
\* heals on components constructed alive, is_dead is set if and only if
\* current_health is 0, and after a tick of the HealthSystem no entity of the
\* store holds a HealthComponent whose current_health is 0.
NoneKeptAtZero(r) ==
    \A e \in r.st.entities :
        get_component(r.st, e, "HealthComponent").ret = "Component" =>
            health[get_component(r.st, e, "HealthComponent").obj].current_health > 0
C30_FlagCoherence ==
    /\ \A c \in HealthIds : health[c].is_dead <=> (health[c].current_health = 0)
    /\ \A listed \in KeyOrders(get_entities_with_component(World, "HealthComponent")) :
          \A keys \in KeyListsOf(World) :
              NoneKeptAtZero(HealthSystem_update(World, listed, keys))

\* C22 (SpecFresh): owner back-reference.  add_component sets the
\* back-reference of the component to the entity, and a removal (by
\* remove_component, by replacement or by destroy_entity) clears it; so a
\* back-reference names an entity only if that entity holds the component.
Holds(st, e, c) ==
    /\ e \in st.entities
    /\ e \in DOMAIN st.components
    /\ TypeOf(c) \in DOMAIN st.components[e]
    /\ st.components[e][TypeOf(c)] = c
C22_OwnerBackReference ==
    /\ \A e \in entities, c \in CompIds : add_component(Store, e, c).st.owner[c] = {e}
    /\ \A c \in CompIds : \A e \in owner[c] : Holds(Store, e, c)

\* C23 (SpecFresh): single ownership.  After any sequence of add_component
\* calls no component instance is in the component map of two entities.
Holders(st, c) == {e \in st.entities : Holds(st, e, c)}
C23_SingleOwnership ==
    \A c \in CompIds : Cardinality(Holders(Store, c)) <= 1

\* C27 (Spec): index consistency with explicit ids.  After any sequence of
\* create_entity (also on an id in use), add_component, remove_component and
\* destroy_entity, every id in the index of a type T names an entity of the
\* store that holds a T, and a create_entity calls the destroy hook of every
\* component that leaves the store with it.
Indexed(st) ==
    \A T \in Types : \A e \in IndexGet(st, T) :
        e \in st.entities /\ has_component(st, e, T) = "True"
NoHookSkipped(st, r, id) ==
    id \in st.entities =>
        \A c \in Held(st, id) : Holds(r.st, id, c) \/ DestroyCalls(r.st.trace, c) = 1
C27_IndexConsistencyWithIds ==
    /\ Indexed(Store)
    /\ \A id \in EntityIds : NoHookSkipped(Store, create_entity(Store, id), id)

\* C29 (SpecStruct): scheduler structure.  After any sequence of add_system,
\* remove_system and clear, the systems list and the by-type map hold the same
\* instances, each under its own type, the list holds at most one instance of
\* a type, and the list is in non-decreasing priority order.
Structured(sm) ==
    /\ {sm.systems[i] : i \in DOMAIN sm.systems} =
          {sm.systems_by_type[T] : T \in DOMAIN sm.systems_by_type}
    /\ \A T \in DOMAIN sm.systems_by_type : SysTypeOf(sm.systems_by_type[T]) = T
    /\ \A i, j \in DOMAIN sm.systems :
          i < j => /\ SysTypeOf(sm.systems[i]) # SysTypeOf(sm.systems[j])
                   /\ PriorityOf(sm.systems[i]) <= PriorityOf(sm.systems[j])
C29_SchedulerStructure ==
    /\ Structured(Sched)
    /\ \A s \in SysIds : Structured(add_system(Sched, s).st)
    /\ \A T \in SysTypes : Structured(remove_system(Sched, T).st)
    /\ Structured(clear(Sched).st)
    /\ clear(Sched).st.systems = <<>>

\* Four systems are registered, two of them with one priority, one of them in
\* the place of another instance of its type that was stopped, and clear stops
\* the four
C29_Witness ==
    /\ Len(systems) = 4
    /\ \E i, j \in DOMAIN systems : i # j /\ PriorityOf(systems[i]) = PriorityOf(systems[j])
    /\ \E s \in SysIds \ running : \E i \in DOMAIN systems :
          SysTypeOf(systems[i]) = SysTypeOf(s)
    /\ Len(clear(Sched).st.trace) = 4
    /\ clear(Sched).st.running = {}

\* C24 (SpecFrame): mid-tick mutation safety.  In a frame in which a system
\* destroys entities, every system updated after it walks only entities that
\* are in the store and hold every component type of its query when its update
\* starts; no later system works on a destroyed entity.
QueryHolds(v) ==
    \A e \in v.listed :
        /\ e \in v.entities
        /\ e \in DOMAIN v.components
        /\ \A i \in DOMAIN QueryTypes(v.system) :
              QueryTypes(v.system)[i] \in DOMAIN v.components[e]
LaterSystemsSafe(r) ==
    \A i, j \in DOMAIN r.st.visits :
        (i < j /\ r.st.visits[j].entities # r.st.visits[i].entities)
            => QueryHolds(r.st.visits[j])
C24_MidTickMutationSafe ==
    \A dt \in 1..MaxDt, env \in PlainEnvs :
        LaterSystemsSafe(world_frame(World, dt, env))

\* C25 (SpecAbort): error propagation without rollback.  When the update of a
\* system raises in a frame, the frame raises: the systems after it in the
\* list are not updated, the clock keeps the delta of the frame, the store and
\* the components are as the systems before it left them, and the list and
\* the by-type map are unchanged.
Place(seq, x) == CHOOSE i \in DOMAIN seq : seq[i] = x
Before(w, x) == [w EXCEPT !.systems = SubSeq(w.systems, 1, Place(w.systems, x) - 1)]
Untouched(env) == [env EXCEPT !.raising = 0]
Aborted(r, dt, env) ==
    LET x == env.raising
        sofar == world_frame(Before(World, x), dt, Untouched(env)).st
    IN /\ r.ret = "Exception"
       /\ Updated(r.st.trace) =
             SelectSeq(SubSeq(systems, 1, Place(systems, x)), IsActive)
       /\ r.st.delta_time = dt
       /\ r.st.total_time = total_time + dt
       /\ r.st.systems = systems
       /\ r.st.systems_by_type = systems_by_type
       /\ r.st.entities = sofar.entities
       /\ r.st.components = sofar.components
       /\ r.st.component_index = sofar.component_index
       /\ r.st.position = sofar.position
       /\ r.st.timer = sofar.timer
       /\ (\E i \in 1..(Place(systems, x) - 1) :
               is_active[systems[i]] /\ SysTypeOf(systems[i]) = "HealthSystem")
             => r.st.entities = entities \ DeadEntities
       /\ (\A i \in 1..(Place(systems, x) - 1) :
               SysTypeOf(systems[i]) # "HealthSystem")
             => r.st.entities = entities
       /\ \A e \in get_entities_with_components(World, QueryTypes(3)) :
             LET t == components[e]["TransformComponent"]
                 moved == \E i \in 1..(Place(systems, x) - 1) :
                              is_active[systems[i]] /\ SysTypeOf(systems[i]) = "MovementSystem"
             IN r.st.position[t].x = position[t].x + (IF moved THEN dt ELSE 0)
       /\ r.st.timer = timer
C25_ErrorPropagates ==
    \A dt \in 1..MaxDt, env \in RaisingEnvs :
        (env.raising # 0 /\ is_active[env.raising])
            => Aborted(world_frame(World, dt, env), dt, env)

\* A frame has run and has moved an entity; an entity is dead, and a frame in
\* which the update of the last system raises updates the four systems,
\* destroys the dead entity and moves the other
C25_Witness ==
    /\ dts # <<>>
    /\ \E t \in TransformIds : position[t].x > 0
    /\ DeadEntities # {}
    /\ DeadEntities # entities
    /\ \E env \in RaisingEnvs :
          /\ env.raising = systems[Len(systems)]
          /\ world_frame(World, 1, env).ret = "Exception"
          /\ Len(Updated(world_frame(World, 1, env).st.trace)) = 4
          /\ world_frame(World, 1, env).st.entities = entities \ DeadEntities
          /\ world_frame(World, 1, env).st.position # position

\* C28 (SpecHot): schedule changes in a frame.  When the update of a system
\* calls remove_system or add_system, every active system that was registered
\* when the frame started and is still registered when it ends is updated
\* exactly once in the frame.
UpdateCalls(tr, x) == Cardinality({i \in DOMAIN tr : tr[i].ev = "update" /\ tr[i].obj = x})
EachOnce(r) ==
    \A i \in DOMAIN systems :
        (is_active[systems[i]] /\ \E j \in DOMAIN r.st.systems : r.st.systems[j] = systems[i])
            => UpdateCalls(r.st.trace, systems[i]) = 1
C28_ScheduleChangeInFrame ==
    \A dt \in 1..MaxDt, env \in ChangingEnvs :
        EachOnce(world_frame(World, dt, env))

\* C26 (SpecRender): render adapter.  An update of the RenderSystem makes one
\* draw call for every entity that holds a transform and a visible sprite,
\* none for any other entity, and makes the calls in ascending z_order.
Eligible(e) ==
    /\ has_component(Store, e, "TransformComponent") = "True"
    /\ has_component(Store, e, "SpriteComponent") = "True"
    /\ sprite[components[e]["SpriteComponent"]].visible
DrawCalls(calls, e) == Cardinality({i \in DOMAIN calls : calls[i].ent = e})
Rendered(r) ==
    /\ \A e \in entities : DrawCalls(r.st.drawn, e) = (IF Eligible(e) THEN 1 ELSE 0)
    /\ \A i, j \in DOMAIN r.st.drawn :
          i < j => z_order[r.st.drawn[i].ent] <= z_order[r.st.drawn[j].ent]
C26_RenderAdapter ==
    \A listed \in Renderable(World) : Rendered(RenderSystem_update(World, listed))

====
